---- MODULE Spec2Model ----
(***************************************************************************)
(* The research-issue workflow of writing_assistant/research_issue_agent.py *)
(* (fetch issue, select, research, sync to Zotero, update issue) and the    *)
(* pure functions it is built from, as a state machine.                     *)
(*                                                                          *)
(* Conventions.  Python indices are 0-based and are kept 0-based as values  *)
(* (article_index, line_index, selected indices); the TLA+ sequence that    *)
(* holds a list is 1-based, so list[i] in Python is list[i + 1] here.       *)
(* Optional[T] is a sequence of length 0 (None) or 1.                       *)
(***************************************************************************)
EXTENDS Integers, Sequences, FiniteSets, TLC

(***************************************************************************)
(* Bounds of the model.                                                     *)
(***************************************************************************)
\* most checklist lines in the "Articles to Find" section of the issue
MaxArticles == 2
\* most checklist lines in the "Topics to Review" section of the issue
MaxTopics == 1
\* most entries of the "selected" array of a selector response
MaxSelected == 2
\* most entries of the "items" array of a research record
MaxEntries == 1

None == <<>>

Some(x) == <<x>>

Range(s) == {s[i] : i \in 1..Len(s)}

SeqsUpTo(S, n) == UNION {[1..k -> S] : k \in 0..n}

RECURSIVE FilterSeq(_, _)
\* the subsequence of s whose positions are in `keep`
FilterSeq(s, keep) ==
    IF s = <<>> THEN <<>>
    ELSE LET rest == FilterSeq([i \in 1..(Len(s) - 1) |-> s[i]], keep)
         IN IF Len(s) \in keep THEN Append(rest, s[Len(s)]) ELSE rest

(***************************************************************************)
(* Issue text.  A text is its lines (str.splitlines) and whether it ends in *)
(* a line terminator; a line is one of the shapes the parser tells apart:   *)
(*   "text"        free text (the summary)                                  *)
(*   "h_articles"  ## Articles to Find        "h_topics"  ## Topics to ...  *)
(*   "h_other"     any other ## heading                                     *)
(*   "open"        - [ ] label                "done"      - [x] label       *)
(*   "detail"      an indented bullet:   - detail                           *)
(*   "blank"       an empty line                                            *)
(* A text that ends in an empty line is the text without that line that     *)
(* ends in a terminator, so the last of `lines` is "blank" only under a     *)
(* final terminator, and a text without lines has none.                     *)
(* `null` is a JSON null in place of the text (GitHub's empty body).        *)
(***************************************************************************)
Text(lines, nl) == [null |-> FALSE, lines |-> lines, nl |-> nl]

EmptyText == Text(<<>>, FALSE)

NullBody == [null |-> TRUE, lines |-> <<>>, nl |-> FALSE]

\* Python truthiness of an Optional[str] holding a text
TruthyText(opt) == opt # None /\ ~opt[1].null /\ (opt[1].lines # <<>> \/ opt[1].nl)

\* `opt or ""`
OrEmpty(opt) == IF TruthyText(opt) THEN opt[1] ELSE EmptyText

IsHeading(line) == line \in {"h_articles", "h_topics", "h_other"}

IsItemLine(line) == line \in {"open", "done"}

ItemChecked(line) == line = "done"

\* line.lstrip().startswith("-")
IsBullet(line) == line \in {"open", "done", "detail"}

RECURSIVE ParseLoop(_, _, _, _, _, _)
\* the loop of parse_issue_articles / parse_issue_topics from line i on:
\* `sec` is the heading that opens the section, `cur` the Optional current
\* item (its details collected so far), `acc` the items finalized so far
ParseLoop(lines, i, sec, in_section, cur, acc) ==
    IF i > Len(lines) THEN acc \o cur
    ELSE LET line == lines[i] IN
        IF IsHeading(line)
        THEN ParseLoop(lines, i + 1, sec, line = sec, None, acc \o cur)
        ELSE IF ~in_section
        THEN ParseLoop(lines, i + 1, sec, FALSE, cur, acc)
        ELSE IF IsItemLine(line)
        THEN ParseLoop(lines, i + 1, sec, TRUE,
                       Some([checked |-> ItemChecked(line),
                             line_index |-> i - 1,
                             details |-> <<>>]),
                       acc \o cur)
        ELSE IF cur # None /\ IsBullet(line)
        THEN ParseLoop(lines, i + 1, sec, TRUE,
                       Some([cur[1] EXCEPT !.details = Append(@, line)]), acc)
        ELSE ParseLoop(lines, i + 1, sec, TRUE, cur, acc)

\* parse_issue_articles taking the text before the first heading for a part
\* of the section
parse_issue_articles_unscoped(body) ==
    ParseLoop(body.lines, 1, "h_articles", TRUE, None, <<>>)

parse_issue_articles(body) == ParseLoop(body.lines, 1, "h_articles", FALSE, None, <<>>)

parse_issue_topics(body) == ParseLoop(body.lines, 1, "h_topics", FALSE, None, <<>>)

\* line.replace("[ ]", "[x]", 1)
ReplaceBox(line) == IF line = "open" THEN "done" ELSE line

\* "\n".join(lines): no terminator after the last line, so a last line that
\* is empty leaves the text ending in the terminator before it
Join(lines) ==
    IF lines # <<>> /\ lines[Len(lines)] = "blank"
    THEN IF Len(lines) = 1 THEN EmptyText
         ELSE Text([k \in 1..(Len(lines) - 1) |-> lines[k]], TRUE)
    ELSE Text(lines, FALSE)

\* the body of mark_articles_completed / mark_topics_completed after the
\* early return: split, re-parse, replace, join
MarkItems(body, indices, items) ==
    LET lines == body.lines
        target == Range(indices)
        hit(k) == \E pos \in 1..Len(items) :
                      /\ (pos - 1) \in target
                      /\ ~items[pos].checked
                      /\ items[pos].line_index = k - 1
    IN Join([k \in 1..Len(lines) |-> IF hit(k) THEN ReplaceBox(lines[k]) ELSE lines[k]])

\* mark_articles_completed without its early return on an empty index list
mark_articles_completed_always(body, indices) ==
    MarkItems(body, indices, parse_issue_articles(body))

mark_articles_completed(body, indices) ==
    IF indices = <<>> THEN body
    ELSE MarkItems(body, indices, parse_issue_articles(body))

mark_topics_completed(body, indices) ==
    IF indices = <<>> THEN body
    ELSE MarkItems(body, indices, parse_issue_topics(body))

(***************************************************************************)
(* Selector.  A selector response (response.content) is                     *)
(*   json = FALSE         text json.loads rejects                           *)
(*   json = TRUE          with `top` the type of the top-level value; for   *)
(*                        an object, `sel` is the type of its "selected"    *)
(*                        member ("missing" when absent) and `entries` the  *)
(*                        members of a "selected" array.                    *)
(* An entry is an integer, a boolean (v = 1 for true) or a string.          *)
(***************************************************************************)
Response(json, top, sel, entries) ==
    [json |-> json, top |-> top, sel |-> sel, entries |-> entries]

IntEntry(v) == [t |-> "int", v |-> v]

\* isinstance(idx, int): bool is a subclass of int
IsInstanceInt(e) == e.t \in {"int", "bool"}

RECURSIVE IntsOf(_)
\* [int(idx) for idx in indices if isinstance(idx, int)]
IntsOf(entries) ==
    IF entries = <<>> THEN <<>>
    ELSE IF IsInstanceInt(Head(entries))
         THEN <<Head(entries).v>> \o IntsOf(Tail(entries))
         ELSE IntsOf(Tail(entries))

RECURSIVE UncheckedFrom(_, _)
\* [idx for idx, item in enumerate(items) if not item.checked], from k on
UncheckedFrom(items, k) ==
    IF k > Len(items) THEN <<>>
    ELSE IF ~items[k].checked THEN <<k - 1>> \o UncheckedFrom(items, k + 1)
    ELSE UncheckedFrom(items, k + 1)

Unchecked(items) == UncheckedFrom(items, 1)

\* ReadSelection with the fallback of the except clause lost: a response
\* that is not JSON selects nothing
ReadSelectionNoFallback(response, unchecked) ==
    IF ~response.json
    THEN [raised |-> "none", selected |-> <<>>]
    ELSE IF response.top # "object"
    THEN [raised |-> "AttributeError", selected |-> <<>>]
    ELSE IF response.sel \in {"missing", "string"}
    THEN [raised |-> "none", selected |-> <<>>]
    ELSE IF response.sel \in {"null", "number"}
    THEN [raised |-> "none", selected |-> unchecked]
    ELSE [raised |-> "none", selected |-> IntsOf(response.entries)]

\* the try/except that reads the response: the list returned, or the
\* exception that leaves the function (only JSONDecodeError, ValueError and
\* TypeError are caught)
ReadSelection(response, unchecked) ==
    IF ~response.json
    THEN [raised |-> "none", selected |-> unchecked]            \* JSONDecodeError
    ELSE IF response.top # "object"
    THEN [raised |-> "AttributeError", selected |-> <<>>]       \* payload.get
    ELSE IF response.sel = "missing"
    THEN [raised |-> "none", selected |-> <<>>]                 \* .get default []
    ELSE IF response.sel \in {"null", "number"}
    THEN [raised |-> "none", selected |-> unchecked]            \* TypeError: not iterable
    ELSE IF response.sel = "string"
    THEN [raised |-> "none", selected |-> <<>>]                 \* characters: no int
    ELSE [raised |-> "none", selected |-> IntsOf(response.entries)]

\* SelectWithLlm without the early return on an empty unchecked list
SelectWithLlmAlways(items, rep) ==
    IF rep = None
    THEN [llm |-> TRUE, raised |-> "LLMError", selected |-> <<>>]
    ELSE [llm |-> TRUE] @@ ReadSelection(rep[1], Unchecked(items))

\* select_articles_with_llm and select_topics_with_llm (the same code on the
\* two item types): `llm` tells whether the LLM was invoked.  A reply is
\* either Some(response) or None when llm.invoke itself raises.
SelectWithLlm(items, rep) ==
    LET unchecked == Unchecked(items) IN
    IF unchecked = <<>>
    THEN [llm |-> FALSE, raised |-> "none", selected |-> <<>>]
    ELSE IF rep = None
    THEN [llm |-> TRUE, raised |-> "LLMError", selected |-> <<>>]
    ELSE [llm |-> TRUE] @@ ReadSelection(rep[1], unchecked)

select_articles_with_llm(articles, rep) == SelectWithLlm(articles, rep)

select_topics_with_llm(topics, rep) == SelectWithLlm(topics, rep)

(***************************************************************************)
(* Research sub-agent.  What run_agent gives back for one item:             *)
(*   "raise"      the agent raises                                          *)
(*   "no_output"  neither "output" nor a final message content              *)
(*   "non_json"   an output string that json.loads rejects                  *)
(*   "ok"         a JSON value, `structured`:                               *)
(*      isdict    whether the value is an object                            *)
(*      items     "missing" | "null" | "list", with `entries` the members   *)
(*      context   "missing" | "null" | "dict", and of a context object      *)
(*      evidence  "missing" | "sources" (entries that name a source) |      *)
(*                "no_sources" (entries that name none)                     *)
(*      notes     "missing" | "list" (a list of notes) | "str" (a string)   *)
(* An entry of items: isdict, and whether it carries a doi, a title, a      *)
(* venue (publicationTitle, conferenceName or publisher) and a url.         *)
(***************************************************************************)
Structured(isdict, items, entries, context, evidence, notes) ==
    [isdict |-> isdict, items |-> items, entries |-> entries, context |-> context,
     evidence |-> evidence, notes |-> notes]

ItemEntry(isdict, doi, title, venue, url) ==
    [isdict |-> isdict, doi |-> doi, title |-> title, venue |-> venue, url |-> url]

NoStructured == Structured(FALSE, "missing", <<>>, "missing", "missing", "missing")

\* _invoke_article_agent: the exception raised, or the structured value
_invoke_article_agent(outcome) ==
    IF outcome.kind = "raise" THEN [raised |-> "AgentError", structured |-> NoStructured]
    ELSE IF outcome.kind = "no_output" THEN [raised |-> "RuntimeError", structured |-> NoStructured]
    ELSE IF outcome.kind = "non_json" THEN [raised |-> "JSONDecodeError", structured |-> NoStructured]
    ELSE [raised |-> "none", structured |-> outcome.structured]

(***************************************************************************)
(* Zotero sync.  `z` is what the reference store does during one call:      *)
(*   creds        credentials are in the environment                        *)
(*   template     "ok" | "raise"      client.item_template                  *)
(*   by_doi, by_title   "hit" | "hit_nokey" | "miss" | "raise"  client.items *)
(*   create       "ok" | "raise" | "empty"   client.create_items            *)
(***************************************************************************)
Zotero(creds, template, by_doi, by_title, create) ==
    [creds |-> creds, template |-> template, by_doi |-> by_doi,
     by_title |-> by_title, create |-> create]

\* _choose_existing_item asking the store for the title only
_choose_existing_item_title_only(z, doi, title) ==
    IF title /\ z.by_title \in {"hit", "hit_nokey"}
    THEN [existing |-> Some([haskey |-> z.by_title = "hit"]), calls |-> <<"zotero_query">>]
    ELSE [existing |-> None, calls |-> IF title THEN <<"zotero_query">> ELSE <<>>]

\* _choose_existing_item: the existing item (whether it has a key) or None,
\* and the queries sent
_choose_existing_item(z, doi, title) ==
    LET first == IF doi THEN <<"zotero_query">> ELSE <<>> IN
    IF doi /\ z.by_doi = "raise" THEN [existing |-> None, calls |-> first]
    ELSE IF doi /\ z.by_doi \in {"hit", "hit_nokey"}
    THEN [existing |-> Some([haskey |-> z.by_doi = "hit"]), calls |-> first]
    ELSE IF title /\ z.by_title = "raise"
    THEN [existing |-> None, calls |-> Append(first, "zotero_query")]
    ELSE IF title /\ z.by_title \in {"hit", "hit_nokey"}
    THEN [existing |-> Some([haskey |-> z.by_title = "hit"]),
          calls |-> Append(first, "zotero_query")]
    ELSE [existing |-> None,
          calls |-> IF title THEN Append(first, "zotero_query") ELSE first]

SyncResult(kind, error, key, existed, calls) ==
    [kind |-> kind, error |-> error, key |-> key, existed |-> existed, calls |-> calls]

\* ZoteroSyncResult: select_uri is built from the key
ZoteroSyncResult(key, existed) ==
    [key |-> key, select_uri |-> <<"zotero://select/items/", key>>, existed |-> existed]

\* CreateItem sending the item a second time before it reads the response
CreateItemRetrying(z, asked) ==
    LET created == Append(asked, "zotero_create") IN
    IF z.create = "raise"
    THEN SyncResult("sync_error", "create failed", "", FALSE, created)
    ELSE SyncResult("ok", "", "created_key", FALSE, Append(created, "zotero_create"))

\* CreateItem reporting the item it created as one that existed
CreateItemAsExisting(z, asked) ==
    LET created == Append(asked, "zotero_create") IN
    IF z.create = "raise"
    THEN SyncResult("sync_error", "create failed", "", FALSE, created)
    ELSE IF z.create = "empty"
    THEN SyncResult("sync_error", "no success payload", "", FALSE, created)
    ELSE SyncResult("ok", "", "created_key", TRUE, created)

\* the end of sync_structured_item when no existing item was chosen:
\* client.create_items and the key of its success payload
CreateItem(z, asked) ==
    LET created == Append(asked, "zotero_create") IN
    IF z.create = "raise"
    THEN SyncResult("sync_error", "create failed", "", FALSE, created)
    ELSE IF z.create = "empty"
    THEN SyncResult("sync_error", "no success payload", "", FALSE, created)
    ELSE SyncResult("ok", "", "created_key", FALSE, created)

\* sync_structured_item: kind "ok" (a ZoteroSyncResult of key and existed),
\* "sync_error" (ZoteroSyncError raised) or "crash" (any other exception),
\* and the calls made to the store
sync_structured_item(structured, z) ==
    IF ~structured.isdict
    THEN SyncResult("crash", "AttributeError", "", FALSE, <<>>)
    ELSE IF structured.items # "list" \/ structured.entries = <<>>
    THEN SyncResult("sync_error", "no item entries", "", FALSE, <<>>)
    ELSE IF ~structured.entries[1].isdict
    THEN SyncResult("sync_error", "entry malformed", "", FALSE, <<>>)
    ELSE IF ~z.creds
    THEN SyncResult("sync_error", "credentials missing", "", FALSE, <<>>)
    ELSE IF z.template = "raise"
    THEN SyncResult("sync_error", "no template", "", FALSE, <<"zotero_template">>)
    ELSE IF structured.context = "null"
    THEN SyncResult("crash", "AttributeError", "", FALSE, <<"zotero_template">>)
    ELSE LET entry == structured.entries[1]
             found == _choose_existing_item(z, entry.doi, entry.title)
             asked == <<"zotero_template">> \o found.calls
         IN IF found.existing # None
            THEN IF ~found.existing[1].haskey
                 THEN SyncResult("sync_error", "existing item lacks a key", "", FALSE, asked)
                 ELSE SyncResult("ok", "", "existing_key", TRUE, asked)
            ELSE CreateItem(z, asked)

(***************************************************************************)
(* Comments.  A comment is the sequence of its lines; "" is <<>>.  The      *)
(* record fields the lines quote (names, titles, URIs) are not spelled.     *)
(***************************************************************************)
\* ResearchResult keeping the placeholder index run_article_research gives it
ResearchResultUnindexed(article_index, article, structured) ==
    [article_index |-> -1, article |-> article,
     structured |-> structured, zotero |-> None, zotero_error |-> None]

ResearchResult(article_index, article, structured) ==
    [article_index |-> article_index, article |-> article,
     structured |-> structured, zotero |-> None, zotero_error |-> None]

TopicResearchResult(topic_index, topic, structured) ==
    [topic_index |-> topic_index, topic |-> topic,
     structured |-> structured, zotero |-> <<>>, zotero_errors |-> <<>>]

\* the lines format_comment adds for one result
CommentBlock(result) ==
    LET st == result.structured
        head == <<"- **name** (_status_):">>
        top == IF st.entries # <<>> /\ st.entries[1].isdict
               THEN st.entries[1] ELSE ItemEntry(TRUE, FALSE, FALSE, FALSE, FALSE)
        items == IF st.items = "list" /\ st.entries # <<>>
                 THEN <<IF top.title THEN "  - Title: title" ELSE "  - Title: Untitled">>
                      \o (IF top.venue THEN <<"  - Venue: pub">> ELSE <<>>)
                      \o (IF top.url THEN <<"  - Link: url">>
                          ELSE IF top.doi THEN <<"  - Link: doi">> ELSE <<>>)
                 ELSE <<"  - No structured entries were returned.">>
        evidence == IF st.context = "dict" /\ st.evidence = "sources"
                    THEN <<"  - Evidence sources: sources">> ELSE <<>>
        zot == IF result.zotero # None
               THEN <<IF result.zotero[1].existed
                      THEN "  - Zotero: [Existing Zotero item](select_uri)"
                      ELSE "  - Zotero: [Added to Zotero](select_uri)">>
               ELSE IF result.zotero_error # None
               THEN <<"  - Zotero sync failed: error">>
               ELSE <<>>
    IN head \o items \o evidence \o zot

RECURSIVE CommentBlocks(_)
CommentBlocks(results) ==
    IF results = <<>> THEN <<>>
    ELSE CommentBlock(Head(results)) \o CommentBlocks(Tail(results))

format_comment(results) ==
    IF results = <<>>
    THEN <<"No unchecked articles required research at this time.">>
    ELSE <<"### Article Research Results">> \o CommentBlocks(results)

\* ReferenceLine writing the venue and the link without looking whether the
\* entry has them
ReferenceLineFull(entry) ==
    IF entry.title THEN "    n. title - venue (link)" ELSE "    n. Untitled - venue (link)"

\* one line of the references of format_topics_comment: the title or
\* "Untitled", then the venue and the link when the entry has them
ReferenceLine(entry) ==
    LET link == entry.url \/ entry.doi IN
    IF entry.title
    THEN IF entry.venue
         THEN IF link THEN "    n. title - venue (link)" ELSE "    n. title - venue"
         ELSE IF link THEN "    n. title (link)" ELSE "    n. title"
    ELSE IF entry.venue
         THEN IF link THEN "    n. Untitled - venue (link)" ELSE "    n. Untitled - venue"
         ELSE IF link THEN "    n. Untitled (link)" ELSE "    n. Untitled"

\* the lines format_topics_comment adds for one result
TopicBlock(result) ==
    LET st == result.structured
        head == <<"- **topic**:">>
        focus == IF result.topic.details # <<>>
                 THEN <<"  - Focus points:">>
                      \o [k \in 1..Len(result.topic.details) |-> "    * detail"]
                 ELSE <<>>
        dicts == {k \in 1..Len(st.entries) : st.entries[k].isdict}
        refs == IF st.isdict /\ st.items = "list" /\ st.entries # <<>>
                THEN <<"  - References:">>
                     \o FilterSeq([k \in 1..Len(st.entries) |->
                                      IF k \in dicts THEN ReferenceLine(st.entries[k])
                                      ELSE ""], dicts)
                ELSE <<"  - No references were produced.">>
        zot == IF result.zotero # <<>>
               THEN <<"  - Zotero items:">>
                    \o [k \in 1..Len(result.zotero) |->
                           IF result.zotero[k].existed THEN "    * Existing: select_uri"
                           ELSE "    * Added: select_uri"]
               ELSE <<>>
        errs == IF result.zotero_errors # <<>>
                THEN <<"  - Zotero sync issues:">>
                     \o [k \in 1..Len(result.zotero_errors) |-> "    * error"]
                ELSE <<>>
        notes == IF st.isdict /\ st.context = "dict" /\ st.notes \in {"list", "str"}
                 THEN <<"  - Notes:", "    * note">> ELSE <<>>
    IN head \o focus \o refs \o zot \o errs \o notes

RECURSIVE TopicBlocks(_)
TopicBlocks(results) ==
    IF results = <<>> THEN <<>>
    ELSE TopicBlock(Head(results)) \o TopicBlocks(Tail(results))

format_topics_comment(results) ==
    IF results = <<>> THEN <<>>
    ELSE <<"### Topic Research Results">> \o TopicBlocks(results)

\* truthiness of an Optional[str] comment
TruthyComment(opt) == opt # None /\ opt[1] # <<>>

RECURSIVE SummaryLines(_)
\* extract_issue_summary: the text before the first ## heading
SummaryLines(lines) ==
    IF lines = <<>> \/ IsHeading(Head(lines)) THEN <<>>
    ELSE <<Head(lines)>> \o SummaryLines(Tail(lines))

extract_issue_summary(body) == SummaryLines(body.lines)

(***************************************************************************)
(* The inputs of a run: the issue on the tracker, and what the selector     *)
(* LLM, the research sub-agent and the reference store answer.              *)
(***************************************************************************)
ItemLines == {"open", "done"}

\* a summary line, the two sections, and optionally a final line terminator
IssueBodies ==
    {NullBody, EmptyText} \cup
    {Text(<<"text", "h_articles">> \o a \o <<"h_topics">> \o t, nl) :
        a \in SeqsUpTo(ItemLines, MaxArticles),
        t \in SeqsUpTo(ItemLines, MaxTopics),
        nl \in BOOLEAN}

\* the entries of a "selected" array: the indices up to n (n itself is out
\* of range for a list of n items), a string and the boolean true
SelectedEntries(n) ==
    {IntEntry(v) : v \in 0..n} \cup {[t |-> "str", v |-> 0], [t |-> "bool", v |-> 1]}

SelectorResponses(n) ==
    {Response(FALSE, "none", "none", <<>>)} \cup
    {Response(TRUE, top, "none", <<>>) : top \in {"array", "string", "number", "null"}} \cup
    {Response(TRUE, "object", sel, <<>>) : sel \in {"missing", "null", "number", "string"}} \cup
    {Response(TRUE, "object", "list", es) : es \in SeqsUpTo(SelectedEntries(n), MaxSelected)}

\* None: llm.invoke raises
SelectorReplies(n) == {None} \cup {Some(r) : r \in SelectorResponses(n)}

FullEntry == ItemEntry(TRUE, TRUE, TRUE, TRUE, TRUE)

AgentRecords ==
    {NoStructured} \cup
    {Structured(TRUE, "list", es, c, IF c = "dict" THEN "sources" ELSE "missing", "missing") :
        es \in SeqsUpTo({FullEntry}, MaxEntries) \ {<<>>},
        c \in {"null", "dict"}} \cup
    {Structured(TRUE, "list", <<>>, "dict", "sources", "missing"),
     Structured(TRUE, "list", <<ItemEntry(FALSE, FALSE, FALSE, FALSE, FALSE)>>,
                "dict", "sources", "missing")}

AgentOutcomes ==
    {[kind |-> k, structured |-> NoStructured] : k \in {"raise", "no_output", "non_json"}} \cup
    {[kind |-> "ok", structured |-> st] : st \in AgentRecords}

\* no credentials; a DOI match; no match and a created item
ZoteroRuns ==
    {Zotero(FALSE, "ok", "miss", "miss", "ok"),
     Zotero(TRUE, "ok", "hit", "miss", "ok"),
     Zotero(TRUE, "ok", "miss", "miss", "ok")}

(***************************************************************************)
(* The run.                                                                 *)
(*   pc       the node about to run, or "done" | "failed" | "killed"        *)
(*   state    ResearchState                                                 *)
(*   tracker  the issue on GitHub: body0 its body when the run started,     *)
(*            body its body now, comments the comments posted since         *)
(*   log      the calls made to the outside, in order                       *)
(*   loop     the locals of the research loop: i the position in the        *)
(*            selected list (1-based), results the list being built         *)
(*   error    where and with what exception the run failed                  *)
(*   reply    the selector exchange of the node that just ran               *)
(*   call     one application of a pure function outside a run: the         *)
(*            function, its arguments and what it returned                  *)
(***************************************************************************)
VARIABLES pc, state, tracker, log, loop, error, reply, call

vars == <<pc, state, tracker, log, loop, error, reply, call>>

InitialState ==
    [issue_body |-> None, summary_text |-> <<>>,
     articles |-> <<>>, topics |-> <<>>,
     selected_indices |-> <<>>, selected_topic_indices |-> <<>>,
     results |-> <<>>, topic_results |-> <<>>,
     comment_body |-> None, updated_issue_body |-> None,
     article_comment |-> None, topic_comment |-> None]

Ev(op) == [op |-> op, idx |-> -1]

EvItem(op, idx) == [op |-> op, idx |-> idx]

Events(ops) == [k \in 1..Len(ops) |-> Ev(ops[k])]

NoError == [at |-> "none", kind |-> "none"]

NoReply == [for |-> "none", r |-> None]

IdleLoop == [i |-> 0, results |-> <<>>]

NoCall == [fn |-> "none"]

Init ==
    /\ pc = "fetch_issue"
    /\ state = InitialState
    /\ tracker \in {[body0 |-> b, body |-> b, comments |-> <<>>] : b \in IssueBodies}
    /\ log = <<>>
    /\ loop = IdleLoop
    /\ error = NoError
    /\ reply = NoReply
    /\ call = NoCall

\* an exception leaves the node: app.invoke raises and the run state is lost
Raise(at, kind) ==
    /\ pc' = "failed"
    /\ error' = [at |-> at, kind |-> kind]
    /\ state' = InitialState
    /\ loop' = IdleLoop

\* fetch_issue_node with the exception of get_issue swallowed: the failure is
\* recorded and the run goes on with an empty body
fetch_issue_node_swallow(got) ==
    /\ log' = Append(log, Ev("get_issue"))
    /\ reply' = NoReply
    /\ UNCHANGED <<tracker, loop>>
    /\ pc' = "select_articles"
    /\ IF got # "ok" \/ tracker.body.null
       THEN /\ error' = [at |-> "fetch_issue", kind |-> got]
            /\ state' = [state EXCEPT !.issue_body = Some(EmptyText)]
       ELSE /\ error' = error
            /\ state' = [state EXCEPT
                    !.issue_body = Some(tracker.body),
                    !.summary_text = extract_issue_summary(tracker.body),
                    !.articles = parse_issue_articles(tracker.body),
                    !.topics = parse_issue_topics(tracker.body)]

\* fetch_issue_node.  `got` is what client.get_issue does: the issue, or a
\* requests exception (an HTTPError is re-raised as RuntimeError)
fetch_issue_node(got) ==
    /\ log' = Append(log, Ev("get_issue"))
    /\ reply' = NoReply
    /\ UNCHANGED tracker
    /\ IF got # "ok" THEN Raise("fetch_issue", got)
       ELSE IF tracker.body.null
       THEN Raise("fetch_issue", "TypeError")     \* re.split on None
       ELSE /\ state' = [state EXCEPT
                    !.issue_body = Some(tracker.body),
                    !.summary_text = extract_issue_summary(tracker.body),
                    !.articles = parse_issue_articles(tracker.body),
                    !.topics = parse_issue_topics(tracker.body)]
            /\ pc' = "select_articles"
            /\ UNCHANGED <<loop, error>>

FetchIssue ==
    /\ pc = "fetch_issue"
    /\ UNCHANGED call
    /\ \E got \in {"ok", "HTTPError", "ConnectionError"} : fetch_issue_node(got)

\* select_articles_node / select_topics_node: the selection, whether the LLM
\* was invoked, and the exception that leaves the node
select_articles_node(articles, rep) ==
    IF articles = <<>>
    THEN [llm |-> FALSE, raised |-> "none", selected |-> <<>>]
    ELSE select_articles_with_llm(articles, rep)

select_topics_node(topics, rep) ==
    IF topics = <<>>
    THEN [llm |-> FALSE, raised |-> "none", selected |-> <<>>]
    ELSE select_topics_with_llm(topics, rep)

\* branch_after_article_selection taking the research edge whatever was
\* selected
branch_always_research(selected) == "research_articles"

branch_after_article_selection(selected) ==
    IF selected = <<>> THEN "select_topics" ELSE "research_articles"

branch_after_topic_selection(selected) ==
    IF selected = <<>> THEN "update_issue" ELSE "research_topics"

SelectArticles ==
    /\ pc = "select_articles"
    /\ UNCHANGED call
    /\ \E rep \in SelectorReplies(MaxArticles) :
        LET r == select_articles_node(state.articles, rep) IN
        /\ log' = IF r.llm THEN Append(log, Ev("llm_articles")) ELSE log
        /\ UNCHANGED tracker
        /\ IF r.raised # "none"
           THEN Raise("select_articles", r.raised) /\ reply' = NoReply
           ELSE /\ reply' = IF r.llm THEN [for |-> "articles", r |-> rep] ELSE NoReply
                /\ state' = [state EXCEPT !.selected_indices = r.selected]
                /\ pc' = branch_after_article_selection(r.selected)
                /\ loop' = [i |-> 1, results |-> <<>>]
                /\ UNCHANGED error

\* ArticleIteration leaving out the result of an item whose sync failed
ArticleIterationDroppingFailedSync(article, idx, outcome, z) ==
    LET research == _invoke_article_agent(outcome)
        sync == sync_structured_item(research.structured, z)
        result == ResearchResult(idx, article, research.structured)
        asked == <<EvItem("agent_article", idx)>>
    IN IF research.raised # "none"
       THEN [raised |-> research.raised, results |-> <<>>, calls |-> asked]
       ELSE IF sync.kind = "crash"
       THEN [raised |-> sync.error, results |-> <<>>, calls |-> asked \o Events(sync.calls)]
       ELSE IF sync.kind = "ok"
       THEN [raised |-> "none",
             results |-> <<[result EXCEPT !.zotero = Some(ZoteroSyncResult(sync.key, sync.existed))]>>,
             calls |-> asked \o Events(sync.calls)]
       ELSE [raised |-> "none", results |-> <<>>, calls |-> asked \o Events(sync.calls)]

\* one pass of the loop of research_articles_node for a selected index that
\* is in range: run_article_research, then sync_structured_item
ArticleIteration(article, idx, outcome, z) ==
    LET research == _invoke_article_agent(outcome)
        sync == sync_structured_item(research.structured, z)
        result == ResearchResult(idx, article, research.structured)
        asked == <<EvItem("agent_article", idx)>>
    IN IF research.raised # "none"
       THEN [raised |-> research.raised, results |-> <<>>, calls |-> asked]
       ELSE IF sync.kind = "crash"
       THEN [raised |-> sync.error, results |-> <<>>, calls |-> asked \o Events(sync.calls)]
       ELSE IF sync.kind = "ok"
       THEN [raised |-> "none",
             results |-> <<[result EXCEPT !.zotero = Some(ZoteroSyncResult(sync.key, sync.existed))]>>,
             calls |-> asked \o Events(sync.calls)]
       ELSE [raised |-> "none",
             results |-> <<[result EXCEPT !.zotero_error = Some(sync.error)]>>,
             calls |-> asked \o Events(sync.calls)]

\* research_articles_node, one selected index at a time
ResearchArticleItem ==
    /\ pc = "research_articles"
    /\ UNCHANGED call
    /\ loop.i <= Len(state.selected_indices)
    /\ reply' = NoReply
    /\ UNCHANGED tracker
    /\ LET idx == state.selected_indices[loop.i] IN
       IF idx < 0 \/ idx >= Len(state.articles)
       THEN /\ loop' = [loop EXCEPT !.i = @ + 1]
            /\ UNCHANGED <<pc, state, log, error>>
       ELSE \E outcome \in AgentOutcomes, z \in ZoteroRuns :
            LET it == ArticleIteration(state.articles[idx + 1], idx, outcome, z) IN
            /\ log' = log \o it.calls
            /\ IF it.raised # "none"
               THEN Raise("research_articles", it.raised)
               ELSE /\ loop' = [i |-> loop.i + 1, results |-> loop.results \o it.results]
                    /\ UNCHANGED <<pc, state, error>>

\* [res.article_index for res in results]
ArticleIndices(results) == [k \in 1..Len(results) |-> results[k].article_index]

\* ResearchArticlesDone posting the article comment as soon as it is built
ResearchArticlesDonePosting ==
    /\ pc = "research_articles"
    /\ UNCHANGED call
    /\ loop.i > Len(state.selected_indices)
    /\ state' = [state EXCEPT
            !.results = loop.results,
            !.article_comment = Some(format_comment(loop.results)),
            !.updated_issue_body =
                Some(mark_articles_completed(OrEmpty(state.issue_body),
                                             ArticleIndices(loop.results)))]
    /\ tracker' = [tracker EXCEPT !.comments = Append(@, format_comment(loop.results))]
    /\ log' = Append(log, Ev("comment"))
    /\ pc' = "select_topics"
    /\ loop' = IdleLoop
    /\ reply' = NoReply
    /\ UNCHANGED error

\* research_articles_node after its loop
ResearchArticlesDone ==
    /\ pc = "research_articles"
    /\ UNCHANGED call
    /\ loop.i > Len(state.selected_indices)
    /\ state' = [state EXCEPT
            !.results = loop.results,
            !.article_comment = Some(format_comment(loop.results)),
            !.updated_issue_body =
                Some(mark_articles_completed(OrEmpty(state.issue_body),
                                             ArticleIndices(loop.results)))]
    /\ pc' = "select_topics"
    /\ loop' = IdleLoop
    /\ reply' = NoReply
    /\ UNCHANGED <<tracker, log, error>>

SelectTopics ==
    /\ pc = "select_topics"
    /\ UNCHANGED call
    /\ \E rep \in SelectorReplies(MaxTopics) :
        LET r == select_topics_node(state.topics, rep) IN
        /\ log' = IF r.llm THEN Append(log, Ev("llm_topics")) ELSE log
        /\ UNCHANGED tracker
        /\ IF r.raised # "none"
           THEN Raise("select_topics", r.raised) /\ reply' = NoReply
           ELSE /\ reply' = IF r.llm THEN [for |-> "topics", r |-> rep] ELSE NoReply
                /\ state' = [state EXCEPT !.selected_topic_indices = r.selected]
                /\ pc' = branch_after_topic_selection(r.selected)
                /\ loop' = [i |-> 1, results |-> <<>>]
                /\ UNCHANGED error

RECURSIVE SyncEntries(_, _, _, _)
\* the inner loop of research_topics_node over the entries of one record,
\* from entry k on: every entry that is a dict is synced on its own, with
\* the record's "context" member (None when the record has none)
SyncEntries(st, zs, k, acc) ==
    IF k > Len(st.entries) THEN acc
    ELSE IF ~st.entries[k].isdict THEN SyncEntries(st, zs, k + 1, acc)
    ELSE LET payload == Structured(TRUE, "list", <<st.entries[k]>>,
                                   IF st.context = "dict" THEN "dict" ELSE "null",
                                   st.evidence, st.notes)
             sync == sync_structured_item(payload, zs[k])
             calls == acc.calls \o Events(sync.calls)
         IN IF sync.kind = "crash"
            THEN [acc EXCEPT !.raised = sync.error, !.calls = calls]
            ELSE IF sync.kind = "ok"
            THEN SyncEntries(st, zs, k + 1,
                     [acc EXCEPT !.zotero = Append(@, ZoteroSyncResult(sync.key, sync.existed)),
                                 !.calls = calls])
            ELSE SyncEntries(st, zs, k + 1,
                     [acc EXCEPT !.zotero_errors = Append(@, sync.error), !.calls = calls])

\* one pass of the loop of research_topics_node for a selected index that is
\* in range: run_topic_research, then the sync of every entry
TopicIteration(topic, idx, outcome, zs) ==
    LET research == _invoke_article_agent(outcome)
        st == research.structured
        asked == <<EvItem("agent_topic", idx)>>
        start == [raised |-> "none", zotero |-> <<>>, zotero_errors |-> <<>>, calls |-> asked]
        synced == IF ~st.isdict THEN start
                  ELSE IF st.items = "null" THEN [start EXCEPT !.raised = "TypeError"]
                  ELSE IF st.items # "list" THEN start
                  ELSE SyncEntries(st, zs, 1, start)
    IN IF research.raised # "none"
       THEN [raised |-> research.raised, results |-> <<>>, calls |-> asked]
       ELSE IF synced.raised # "none"
       THEN [raised |-> synced.raised, results |-> <<>>, calls |-> synced.calls]
       ELSE [raised |-> "none",
             results |-> <<[TopicResearchResult(idx, topic, st) EXCEPT
                                !.zotero = synced.zotero,
                                !.zotero_errors = synced.zotero_errors]>>,
             calls |-> synced.calls]

\* research_topics_node, one selected index at a time (its early return on
\* an empty selection is never taken: the branch skips the node then)
ResearchTopicItem ==
    /\ pc = "research_topics"
    /\ UNCHANGED call
    /\ loop.i <= Len(state.selected_topic_indices)
    /\ reply' = NoReply
    /\ UNCHANGED tracker
    /\ LET idx == state.selected_topic_indices[loop.i] IN
       IF idx < 0 \/ idx >= Len(state.topics)
       THEN /\ loop' = [loop EXCEPT !.i = @ + 1]
            /\ UNCHANGED <<pc, state, log, error>>
       ELSE \E outcome \in AgentOutcomes, zs \in [1..MaxEntries -> ZoteroRuns] :
            LET it == TopicIteration(state.topics[idx + 1], idx, outcome, zs) IN
            /\ log' = log \o it.calls
            /\ IF it.raised # "none"
               THEN Raise("research_topics", it.raised)
               ELSE /\ loop' = [i |-> loop.i + 1, results |-> loop.results \o it.results]
                    /\ UNCHANGED <<pc, state, error>>

TopicIndices(results) == [k \in 1..Len(results) |-> results[k].topic_index]

\* BodyToMark taking the fetched body whatever the article stage produced
BodyToMarkOriginal(st) == OrEmpty(st.issue_body)

\* state.updated_issue_body or state.issue_body or ""
BodyToMark(st) ==
    IF TruthyText(st.updated_issue_body) THEN st.updated_issue_body[1]
    ELSE OrEmpty(st.issue_body)

\* research_topics_node after its loop
ResearchTopicsDone ==
    /\ pc = "research_topics"
    /\ UNCHANGED call
    /\ loop.i > Len(state.selected_topic_indices)
    /\ state' = [state EXCEPT
            !.topic_results = loop.results,
            !.topic_comment = Some(format_topics_comment(loop.results)),
            !.updated_issue_body =
                Some(mark_topics_completed(BodyToMark(state), TopicIndices(loop.results)))]
    /\ pc' = "update_issue"
    /\ loop' = IdleLoop
    /\ reply' = NoReply
    /\ UNCHANGED <<tracker, log, error>>

\* "\n\n".join of the non-empty sections
CommentText(st) ==
    LET a == IF TruthyComment(st.article_comment) THEN st.article_comment[1] ELSE <<>>
        t == IF TruthyComment(st.topic_comment) THEN st.topic_comment[1] ELSE <<>>
    IN IF a # <<>> /\ t # <<>> THEN a \o <<"">> \o t ELSE a \o t

\* state.updated_issue_body and state.updated_issue_body != (state.issue_body or "")
BodyChanged(st) ==
    TruthyText(st.updated_issue_body) /\ st.updated_issue_body[1] # OrEmpty(st.issue_body)

\* update_issue_node posting the article section and the topic section as
\* one comment each
update_issue_node_per_section(comment_ok, patch_ok) ==
    LET sections ==
            (IF TruthyComment(state.article_comment) THEN <<state.article_comment[1]>> ELSE <<>>)
            \o (IF TruthyComment(state.topic_comment) THEN <<state.topic_comment[1]>> ELSE <<>>)
        posts == sections # <<>>
        patches == (~posts \/ comment_ok) /\ BodyChanged(state)
    IN /\ log' = log \o [k \in 1..Len(sections) |-> Ev("comment")]
                     \o (IF patches THEN <<Ev("patch")>> ELSE <<>>)
       /\ tracker' = [tracker EXCEPT
                !.comments = IF comment_ok THEN @ \o sections ELSE @,
                !.body = IF patches /\ patch_ok THEN state.updated_issue_body[1] ELSE @]
       /\ reply' = NoReply
       /\ IF posts /\ ~comment_ok THEN Raise("update_issue", "HTTPError:comment")
          ELSE IF patches /\ ~patch_ok THEN Raise("update_issue", "HTTPError:patch")
          ELSE /\ state' = [state EXCEPT
                       !.comment_body = IF posts THEN Some(CommentText(state)) ELSE None]
               /\ pc' = "done"
               /\ UNCHANGED <<loop, error>>

\* update_issue_node patching the body before it posts the comment
update_issue_node_patch_first(comment_ok, patch_ok) ==
    LET text == CommentText(state)
        patches == BodyChanged(state)
        posts == (~patches \/ patch_ok) /\ text # <<>>
    IN /\ log' = log \o (IF patches THEN <<Ev("patch")>> ELSE <<>>)
                     \o (IF posts THEN <<Ev("comment")>> ELSE <<>>)
       /\ tracker' = [tracker EXCEPT
                !.comments = IF posts /\ comment_ok THEN Append(@, text) ELSE @,
                !.body = IF patches /\ patch_ok THEN state.updated_issue_body[1] ELSE @]
       /\ reply' = NoReply
       /\ IF patches /\ ~patch_ok THEN Raise("update_issue", "HTTPError:patch")
          ELSE IF posts /\ ~comment_ok THEN Raise("update_issue", "HTTPError:comment")
          ELSE /\ state' = [state EXCEPT
                       !.comment_body = IF text # <<>> THEN Some(text) ELSE None]
               /\ pc' = "done"
               /\ UNCHANGED <<loop, error>>

\* update_issue_node posting the joined comment even when it is empty
update_issue_node_posting_empty(comment_ok, patch_ok) ==
    LET text == CommentText(state)
        patches == comment_ok /\ BodyChanged(state)
        patched == patches /\ patch_ok
    IN /\ log' = log \o <<Ev("comment")>> \o (IF patches THEN <<Ev("patch")>> ELSE <<>>)
       /\ tracker' = [tracker EXCEPT
                !.comments = IF comment_ok THEN Append(@, text) ELSE @,
                !.body = IF patched THEN state.updated_issue_body[1] ELSE @]
       /\ reply' = NoReply
       /\ IF ~comment_ok THEN Raise("update_issue", "HTTPError:comment")
          ELSE IF patches /\ ~patch_ok THEN Raise("update_issue", "HTTPError:patch")
          ELSE /\ state' = [state EXCEPT !.comment_body = Some(text)]
               /\ pc' = "done"
               /\ UNCHANGED <<loop, error>>

\* update_issue_node.  comment_ok and patch_ok tell whether the tracker
\* accepts the call (raise_for_status raises otherwise)
update_issue_node(comment_ok, patch_ok) ==
    LET text == CommentText(state)
        posts == text # <<>>
        posted == posts /\ comment_ok
        patches == (~posts \/ comment_ok) /\ BodyChanged(state)
        patched == patches /\ patch_ok
    IN /\ log' = log \o (IF posts THEN <<Ev("comment")>> ELSE <<>>)
                     \o (IF patches THEN <<Ev("patch")>> ELSE <<>>)
       /\ tracker' = [tracker EXCEPT
                !.comments = IF posted THEN Append(@, text) ELSE @,
                !.body = IF patched THEN state.updated_issue_body[1] ELSE @]
       /\ reply' = NoReply
       /\ IF posts /\ ~comment_ok THEN Raise("update_issue", "HTTPError:comment")
          ELSE IF patches /\ ~patch_ok THEN Raise("update_issue", "HTTPError:patch")
          ELSE /\ state' = [state EXCEPT
                       !.comment_body = IF posts THEN Some(text) ELSE None]
               /\ pc' = "done"
               /\ UNCHANGED <<loop, error>>

UpdateIssue ==
    /\ pc = "update_issue"
    /\ UNCHANGED call
    /\ \E comment_ok \in BOOLEAN, patch_ok \in BOOLEAN :
        update_issue_node(comment_ok, patch_ok)

Running == pc \notin {"done", "failed", "killed"}

\* the process is killed between two steps: the run state is lost
Interrupt ==
    /\ Running
    /\ UNCHANGED call
    /\ pc' = "killed"
    /\ state' = InitialState
    /\ loop' = IdleLoop
    /\ reply' = NoReply
    /\ UNCHANGED <<tracker, log, error>>

Next ==
    \/ FetchIssue
    \/ SelectArticles
    \/ ResearchArticleItem
    \/ ResearchArticlesDone
    \/ SelectTopics
    \/ ResearchTopicItem
    \/ ResearchTopicsDone
    \/ UpdateIssue
    \/ Interrupt

Spec == Init /\ [][Next]_vars

(***************************************************************************)
(* Properties.                                                              *)
(***************************************************************************)
\* the positions of the log at which `op` was called
Calls(op) == {k \in 1..Len(log) : log[k].op = op}

TrackerUntouched == tracker.body = tracker.body0 /\ tracker.comments = <<>>

\* C1: before UpdateIssue no tracker-mutating call is made: while the run is
\* in any earlier stage, and after a failure or a kill before UpdateIssue,
\* the issue body and the comments on the tracker are those of the start.
C1_NoMutationBeforeUpdate ==
    (pc # "done" /\ ~(pc = "failed" /\ error.at = "update_issue"))
        => /\ TrackerUntouched
           /\ Calls("comment") = {}
           /\ Calls("patch") = {}

\* C1 witness: a run killed after it researched an article and created a
\* Zotero item for it.
C1_KilledAfterResearch ==
    /\ pc = "killed"
    /\ Calls("agent_article") # {}
    /\ Calls("zotero_create") # {}
    /\ TrackerUntouched

\* C2 as stated: a run that completes has made each of the two
\* tracker-mutating calls exactly once.
C2_ExactlyOncePerRun ==
    pc = "done" => Cardinality(Calls("comment")) = 1 /\ Cardinality(Calls("patch")) = 1

\* C2 as amended: each of the two tracker-mutating calls is made at most once
\* per run, and only by UpdateIssue as the last calls of the run (nothing
\* but the patch follows the comment, nothing follows the patch), however
\* many items were researched.
C2_AtMostOnceAtTheEnd ==
    /\ Cardinality(Calls("comment")) <= 1
    /\ Cardinality(Calls("patch")) <= 1
    /\ Len(tracker.comments) <= 1
    /\ \A k \in Calls("comment") : \A j \in (k + 1)..Len(log) : log[j].op = "patch"
    /\ \A k \in Calls("patch") : k = Len(log)
    /\ (Calls("comment") \cup Calls("patch")) # {}
          => (pc = "done" \/ (pc = "failed" /\ error.at = "update_issue"))

\* C2 witness: a completed run that researched two articles and a topic and
\* made one comment call and one patch call.
C2_TwoItemsOneComment ==
    /\ pc = "done"
    /\ Len(state.results) >= 2
    /\ Len(state.topic_results) >= 1
    /\ Cardinality(Calls("comment")) = 1
    /\ Cardinality(Calls("patch")) = 1

\* C3: a run whose FetchIssue succeeded reaches UpdateIssue whatever the
\* selector returns and whatever research and sync do: the run never fails
\* in a stage between FetchIssue and UpdateIssue (a failure of the call to
\* the selector LLM itself set aside).
C3_UpdateIssueAlwaysReached ==
    pc = "failed" =>
        \/ error.at \in {"fetch_issue", "update_issue"}
        \/ error.kind = "LLMError"

\* C4: a research failure of one item (the sub-agent raises, returns no
\* output, or returns non-JSON output) does not end the run.
C4_ResearchFailureIsolated ==
    ~(/\ pc = "failed"
      /\ error.at \in {"research_articles", "research_topics"}
      /\ error.kind \in {"AgentError", "RuntimeError", "JSONDecodeError"})

\* C5: whatever goes wrong inside a sync call, the run does not end: no run
\* fails in a research stage with an exception raised by sync_structured_item.
C5_SyncFailureNeverFatal ==
    ~(/\ pc = "failed"
      /\ error.at \in {"research_articles", "research_topics"}
      /\ error.kind = "AttributeError")

\* C6: when the issue cannot be fetched the run fails at once, having called
\* nothing but get_issue: no selector, no research, no reference store, no
\* comment and no patch.
C6_FetchFailureNoSideEffects ==
    error.at = "fetch_issue" =>
        /\ pc = "failed"
        /\ log = <<Ev("get_issue")>>
        /\ TrackerUntouched

\* C6 witness: get_issue answered with an HTTP error.
C6_FetchFailed == pc = "failed" /\ error = [at |-> "fetch_issue", kind |-> "HTTPError"]

\* the 0-based positions of the unchecked items of a list
UncheckedSet(items) == {k - 1 : k \in {j \in 1..Len(items) : ~items[j].checked}}

\* s lists exactly the members of S, in increasing order
ListsInOrder(s, S) ==
    /\ Range(s) = S
    /\ \A i, j \in 1..Len(s) : i < j => s[i] < s[j]

NonJsonReply(kind) == reply.for = kind /\ reply.r # None /\ ~reply.r[1].json

\* C7: when the selector was asked (there is an unchecked item) and its
\* response is not JSON, the selected list is the list of all unchecked
\* positions in list order, for articles and for topics.
C7_NonJsonSelectsAllUnchecked ==
    /\ NonJsonReply("articles") =>
          /\ UncheckedSet(state.articles) # {}
          /\ ListsInOrder(state.selected_indices, UncheckedSet(state.articles))
    /\ NonJsonReply("topics") =>
          /\ UncheckedSet(state.topics) # {}
          /\ ListsInOrder(state.selected_topic_indices, UncheckedSet(state.topics))

\* C7 witness: of two articles the first is checked, the response is not
\* JSON, and the article at position 1 is selected.
C7_FallbackKeepsPositions ==
    /\ NonJsonReply("articles")
    /\ Len(state.articles) = 2
    /\ state.articles[1].checked
    /\ state.selected_indices = <<1>>

\* a JSON object whose "selected" member is missing or is an array with an
\* entry that is not an integer
SchemaViolation(r) ==
    /\ r.json
    /\ r.top = "object"
    /\ \/ r.sel = "missing"
       \/ r.sel = "list" /\ \E k \in 1..Len(r.entries) : r.entries[k].t # "int"

\* C8: when the selector response is JSON whose "selected" member is missing
\* or holds a non-integer entry, the selected list is the list of all
\* unchecked positions.
C8_SchemaViolationSelectsAllUnchecked ==
    /\ (reply.for = "articles" /\ reply.r # None /\ SchemaViolation(reply.r[1]))
          => ListsInOrder(state.selected_indices, UncheckedSet(state.articles))
    /\ (reply.for = "topics" /\ reply.r # None /\ SchemaViolation(reply.r[1]))
          => ListsInOrder(state.selected_topic_indices, UncheckedSet(state.topics))

Fetched == state.issue_body # None

\* C9: a kind without unchecked items (no item, or every item checked) gets
\* the empty selection, the selector LLM is not invoked for it, and its
\* research stage is not entered (no item of the kind is researched).
C9_NothingUncheckedSkipsKind ==
    /\ (Fetched /\ UncheckedSet(state.articles) = {}) =>
          /\ state.selected_indices = <<>>
          /\ Calls("llm_articles") = {}
          /\ Calls("agent_article") = {}
          /\ pc # "research_articles"
    /\ (Fetched /\ UncheckedSet(state.topics) = {}) =>
          /\ state.selected_topic_indices = <<>>
          /\ Calls("llm_topics") = {}
          /\ Calls("agent_topic") = {}
          /\ pc # "research_topics"

\* C9 witness: a completed run over two articles, both checked, that
\* researched a topic.
C9_AllCheckedArticlesSkipped ==
    /\ pc = "done"
    /\ Len(state.articles) = 2
    /\ UncheckedSet(state.articles) = {}
    /\ state.topic_results # <<>>
    /\ Calls("llm_articles") = {}

\* C10: every selected index is the position of an item that was unchecked
\* when the issue was fetched, and no checked item is researched.
C10_SelectedAreUnchecked ==
    Fetched =>
        /\ Range(state.selected_indices) \subseteq UncheckedSet(state.articles)
        /\ Range(state.selected_topic_indices) \subseteq UncheckedSet(state.topics)
        /\ \A k \in Calls("agent_article") : log[k].idx \in UncheckedSet(state.articles)
        /\ \A k \in Calls("agent_topic") : log[k].idx \in UncheckedSet(state.topics)

(***************************************************************************)
(* The checklist functions on their own: parse_issue_articles,              *)
(* parse_issue_topics, mark_articles_completed and mark_topics_completed    *)
(* applied to any text of a few lines and any short list of indices.        *)
(***************************************************************************)
\* most lines of a text
MaxLines == 4
\* the largest index of an index list
MaxIndex == 1
\* most entries of an index list
MaxMarked == 2

LineShapes == {"h_articles", "h_topics", "h_other", "open", "done", "detail", "blank"}

\* the texts of at most MaxLines lines, each written in one way only
Texts ==
    {t \in {Text(l, nl) : l \in SeqsUpTo(LineShapes, MaxLines), nl \in BOOLEAN} :
        IF t.nl THEN t.lines # <<>>
        ELSE t.lines = <<>> \/ t.lines[Len(t.lines)] # "blank"}

IndexLists == SeqsUpTo(0..MaxIndex, MaxMarked)

\* the variables of a run
run == <<pc, state, tracker, log, loop, error, reply>>

\* no run is going on
NoRun ==
    /\ pc = "idle"
    /\ state = InitialState
    /\ tracker = [body0 |-> EmptyText, body |-> EmptyText, comments |-> <<>>]
    /\ log = <<>>
    /\ loop = IdleLoop
    /\ error = NoError
    /\ reply = NoReply

MarkInit ==
    /\ NoRun
    /\ call \in {[fn |-> "none", body |-> t, indices |-> s, out |-> None] :
                    t \in Texts, s \in IndexLists}

ParseArticles ==
    /\ call.fn = "none"
    /\ call' = [call EXCEPT !.fn = "parse_issue_articles",
                            !.out = parse_issue_articles(call.body)]
    /\ UNCHANGED run

ParseTopics ==
    /\ call.fn = "none"
    /\ call' = [call EXCEPT !.fn = "parse_issue_topics",
                            !.out = parse_issue_topics(call.body)]
    /\ UNCHANGED run

MarkArticles ==
    /\ call.fn = "none"
    /\ call' = [call EXCEPT !.fn = "mark_articles_completed",
                            !.out = mark_articles_completed(call.body, call.indices)]
    /\ UNCHANGED run

MarkTopics ==
    /\ call.fn = "none"
    /\ call' = [call EXCEPT !.fn = "mark_topics_completed",
                            !.out = mark_topics_completed(call.body, call.indices)]
    /\ UNCHANGED run

\* the function applied again, with the same indices, to what it returned
MarkArticlesAgain ==
    /\ call.fn = "mark_articles_completed"
    /\ call' = [call EXCEPT !.fn = "mark_articles_completed twice",
                            !.out = mark_articles_completed(call.out, call.indices)]
    /\ UNCHANGED run

MarkTopicsAgain ==
    /\ call.fn = "mark_topics_completed"
    /\ call' = [call EXCEPT !.fn = "mark_topics_completed twice",
                            !.out = mark_topics_completed(call.out, call.indices)]
    /\ UNCHANGED run

MarkNext ==
    \/ ParseArticles
    \/ ParseTopics
    \/ MarkArticles
    \/ MarkTopics
    \/ MarkArticlesAgain
    \/ MarkTopicsAgain

MarkSpec == MarkInit /\ [][MarkNext]_vars

\* the lines (1-based) of the items of `items` at the positions of `indices`
\* that are not checked
LinesToCheck(items, indices) ==
    {items[p].line_index + 1 : p \in {q \in 1..Len(items) :
                                          (q - 1) \in Range(indices) /\ ~items[q].checked}}

\* `out` is `body` with exactly the lines of `marked` turned from unchecked
\* to checked, every other line and the final terminator as they were
PreciselyMarked(body, out, marked) ==
    /\ out.nl = body.nl
    /\ Len(out.lines) = Len(body.lines)
    /\ \A k \in 1..Len(body.lines) :
        out.lines[k] = IF k \in marked THEN "done" ELSE body.lines[k]

\* C11: marking is precise: mark_articles_completed(T, S) and
\* mark_topics_completed(T, S) check exactly the unchecked items whose parsed
\* position is in S, uncheck nothing, and leave every other line and the
\* trailing newline of T as they are.
C11_MarkingPrecise ==
    /\ call.fn = "mark_articles_completed" =>
        PreciselyMarked(call.body, call.out,
                        LinesToCheck(parse_issue_articles(call.body), call.indices))
    /\ call.fn = "mark_topics_completed" =>
        PreciselyMarked(call.body, call.out,
                        LinesToCheck(parse_issue_topics(call.body), call.indices))

\* C12: marking is idempotent: marking the marked text again with the same
\* indices returns the marked text, also for texts that end in newlines or
\* blank lines.
C12_MarkingIdempotent ==
    /\ call.fn = "mark_articles_completed twice" =>
        call.out = mark_articles_completed(call.body, call.indices)
    /\ call.fn = "mark_topics_completed twice" =>
        call.out = mark_topics_completed(call.body, call.indices)

\* C13: marking no indices changes nothing: with the empty index list both
\* functions return exactly the text they were given.
C13_MarkingNothingIsIdentity ==
    (call.fn \in {"mark_articles_completed", "mark_topics_completed"}
        /\ call.indices = <<>>)
    => call.out = call.body

\* C13 witness: mark_articles_completed was given no indices and a text that
\* has an unchecked article and ends in a newline.
C13_NothingMarkedInOpenList ==
    /\ call.fn = "mark_articles_completed"
    /\ call.indices = <<>>
    /\ call.body.nl
    /\ \E k \in 1..Len(parse_issue_articles(call.body)) :
        ~parse_issue_articles(call.body)[k].checked

\* the candidate body of the run, when there is one
Candidate == state.updated_issue_body[1]

\* the line of the candidate body at a 0-based line index is a checked item
CheckedAt(line_index) ==
    /\ line_index + 1 \in 1..Len(Candidate.lines)
    /\ Candidate.lines[line_index + 1] = "done"

LineIndices(items) == [k \in 1..Len(items) |-> items[k].line_index]

\* C14: once the research stages are over, the candidate body has checked
\* every article that has an article result and every topic that has a topic
\* result, whichever of the two stages ran, and the topics of the candidate
\* body are at the positions and lines they had in the fetched body.
C14_CompletionsCompose ==
    (pc \in {"update_issue", "done"}
        /\ (state.results # <<>> \/ state.topic_results # <<>>))
    => /\ state.updated_issue_body # None
       /\ \A k \in 1..Len(state.results) :
            CheckedAt(state.results[k].article.line_index)
       /\ \A k \in 1..Len(state.topic_results) :
            CheckedAt(state.topic_results[k].topic.line_index)
       /\ LineIndices(parse_issue_topics(Candidate)) = LineIndices(state.topics)
       /\ LineIndices(parse_issue_articles(Candidate)) = LineIndices(state.articles)

\* C14 witness: a completed run that researched an unchecked article and an
\* unchecked topic; both are checked in the body now on the tracker.
C14_BothKindsChecked ==
    /\ pc = "done"
    /\ \E k \in 1..Len(state.results) : ~state.results[k].article.checked
    /\ \E k \in 1..Len(state.topic_results) : ~state.topic_results[k].topic.checked
    /\ tracker.body = Candidate
    /\ tracker.body # tracker.body0

(***************************************************************************)
(* sync_structured_item on its own: any record of one entry, any conduct    *)
(* of the reference store.                                                  *)
(***************************************************************************)
SyncItemEntries ==
    {ItemEntry(FALSE, FALSE, FALSE, FALSE, FALSE)} \cup
    {ItemEntry(TRUE, doi, title, TRUE, TRUE) : doi \in BOOLEAN, title \in BOOLEAN}

SyncRecords ==
    {NoStructured} \cup
    {Structured(TRUE, items, <<>>, c, "missing", "missing") :
        items \in {"missing", "null", "list"}, c \in {"missing", "null", "dict"}} \cup
    {Structured(TRUE, "list", es, c, "missing", "missing") :
        es \in SeqsUpTo(SyncItemEntries, MaxEntries) \ {<<>>},
        c \in {"missing", "null", "dict"}}

Stores ==
    {Zotero(creds, template, by_doi, by_title, create) :
        creds \in BOOLEAN,
        template \in {"ok", "raise"},
        by_doi \in {"hit", "hit_nokey", "miss", "raise"},
        by_title \in {"hit", "hit_nokey", "miss", "raise"},
        create \in {"ok", "raise", "empty"}}

SyncInit ==
    /\ NoRun
    /\ call \in {[fn |-> "none", structured |-> st, zotero |-> z,
                  out |-> SyncResult("none", "", "", FALSE, <<>>), result |-> None] :
                    st \in SyncRecords, z \in Stores}

\* the call; `result` is the ZoteroSyncResult it returns, if it returns
SyncStructuredItem ==
    /\ call.fn = "none"
    /\ LET sync == sync_structured_item(call.structured, call.zotero) IN
       call' = [call EXCEPT
                    !.fn = "sync_structured_item",
                    !.out = sync,
                    !.result = IF sync.kind = "ok"
                               THEN Some(ZoteroSyncResult(sync.key, sync.existed))
                               ELSE None]
    /\ UNCHANGED run

SyncNext == SyncStructuredItem

SyncSpec == SyncInit /\ [][SyncNext]_vars

Synced == call.fn = "sync_structured_item"

\* the record is an object whose first item is an object and whose context,
\* if it has one, is an object
RecordWellFormed(st) ==
    /\ st.isdict
    /\ st.items = "list"
    /\ st.entries # <<>>
    /\ st.entries[1].isdict
    /\ st.context # "null"

\* the store takes the credentials and hands out the item template
StoreReachable(z) == z.creds /\ z.template = "ok"

CreateCalls == {k \in 1..Len(call.out.calls) : call.out.calls[k] = "zotero_create"}

QueryCalls == {k \in 1..Len(call.out.calls) : call.out.calls[k] = "zotero_query"}

\* C15: dedup hit: when the DOI of the record matches an entry of the store,
\* the call returns existed = True with the identifier of that entry and
\* makes no create call.
C15_DedupHit ==
    (Synced /\ RecordWellFormed(call.structured) /\ StoreReachable(call.zotero)
        /\ call.structured.entries[1].doi /\ call.zotero.by_doi = "hit")
    => /\ call.result # None
       /\ call.result[1].existed
       /\ call.result[1].key = "existing_key"
       /\ CreateCalls = {}

\* C15 witness: a record with a DOI and a title, the DOI query hit, and the
\* outcome says the item existed.
C15_FoundByDoi ==
    /\ Synced
    /\ call.structured.entries # <<>>
    /\ call.structured.entries[1].doi /\ call.structured.entries[1].title
    /\ call.zotero.by_doi = "hit"
    /\ call.result # None
    /\ call.result[1].existed
    /\ Cardinality(QueryCalls) = 1

\* C16: dedup miss: when neither the DOI nor the title of the record matches
\* an entry of the store (or the record has none), the call makes exactly one
\* create call and returns existed = False with the identifier of the create
\* response.
C16_DedupMiss ==
    (Synced /\ RecordWellFormed(call.structured) /\ StoreReachable(call.zotero)
        /\ (call.structured.entries[1].doi => call.zotero.by_doi = "miss")
        /\ (call.structured.entries[1].title => call.zotero.by_title = "miss")
        /\ call.zotero.create = "ok")
    => /\ call.result # None
       /\ ~call.result[1].existed
       /\ call.result[1].key = "created_key"
       /\ Cardinality(CreateCalls) = 1

\* C16 witness: a record without DOI whose title matched nothing was created.
C16_CreatedAfterTitleMiss ==
    /\ Synced
    /\ call.structured.entries # <<>>
    /\ ~call.structured.entries[1].doi /\ call.structured.entries[1].title
    /\ call.zotero.by_title = "miss"
    /\ call.result # None
    /\ ~call.result[1].existed
    /\ Cardinality(QueryCalls) = 1
    /\ Cardinality(CreateCalls) = 1

\* C17: every outcome a sync call returns has a non-empty identifier and the
\* deep link built from it; existed is true only for the identifier of a
\* dedup query hit, never for the identifier of a create response.
C17_OutcomeInvariant ==
    Synced =>
        /\ call.result # None <=> call.out.kind = "ok"
        /\ call.result # None =>
            /\ call.result[1].key # ""
            /\ call.result[1].select_uri = <<"zotero://select/items/", call.result[1].key>>
            /\ call.result[1].existed =>
                (call.result[1].key = "existing_key" /\ CreateCalls = {} /\ QueryCalls # {})
            /\ CreateCalls # {} =>
                (call.result[1].key = "created_key" /\ ~call.result[1].existed)

\* C17 witness: the DOI matched nothing, the title did: the outcome carries
\* the identifier of the entry found by title.
C17_FoundByTitle ==
    /\ Synced
    /\ call.zotero.by_doi = "miss" /\ call.zotero.by_title = "hit"
    /\ Cardinality(QueryCalls) = 2
    /\ call.result # None
    /\ call.result[1].existed

\* the edges of the graph, and the ways out of it
StageEdges ==
    {<<"fetch_issue", "select_articles">>,
     <<"select_articles", "research_articles">>,
     <<"select_articles", "select_topics">>,
     <<"research_articles", "select_topics">>,
     <<"select_topics", "research_topics">>,
     <<"select_topics", "update_issue">>,
     <<"research_topics", "update_issue">>,
     <<"update_issue", "done">>}
    \cup {<<n, end>> : n \in {"fetch_issue", "select_articles", "research_articles",
                              "select_topics", "research_topics", "update_issue"},
                       end \in {"failed", "killed"}}

\* one step of a run keeps to the order of the stages
StageStep ==
    /\ pc' # pc => <<pc, pc'>> \in StageEdges
    /\ (pc = "select_articles" /\ pc' \in {"research_articles", "select_topics"}) =>
        (pc' = "research_articles" <=> state'.selected_indices # <<>>)
    /\ (pc = "select_topics" /\ pc' \in {"research_topics", "update_issue"}) =>
        (pc' = "research_topics" <=> state'.selected_topic_indices # <<>>)
    /\ pc' = "research_articles" => pc \in {"select_articles", "research_articles"}
    /\ pc' = "research_topics" => pc \in {"select_topics", "research_topics"}
    /\ Calls("llm_articles")' # Calls("llm_articles") => pc = "select_articles"
    /\ Calls("agent_article")' # Calls("agent_article") => pc = "research_articles"
    /\ Calls("llm_topics")' # Calls("llm_topics") => pc = "select_topics"
    /\ Calls("agent_topic")' # Calls("agent_topic") => pc = "research_topics"

\* C18: a run visits FetchIssue, SelectArticles, [ResearchArticles],
\* SelectTopics, [ResearchTopics], UpdateIssue in this order and each at most
\* once (the edges admit no way back); a research stage is entered if and
\* only if the selection of its kind is not empty, and the selector of a kind
\* is asked only in its selection stage, which is over when research starts.
C18_StageOrder == [][StageStep]_vars

\* C18 witness: a completed run that entered ResearchArticles and skipped
\* ResearchTopics because no topic was selected.
C18_ArticlesResearchedTopicsSkipped ==
    /\ pc = "done"
    /\ Calls("agent_article") # {}
    /\ state.topics # <<>>
    /\ state.selected_topic_indices = <<>>
    /\ Calls("agent_topic") = {}

(***************************************************************************)
(* format_comment and format_topics_comment on their own: the empty list    *)
(* and every list of one result, over records that have or lack each of     *)
(* the fields the comment quotes.                                           *)
(***************************************************************************)
CommentEntries ==
    {ItemEntry(FALSE, FALSE, FALSE, FALSE, FALSE)} \cup
    {ItemEntry(TRUE, doi, title, venue, url) :
        doi \in BOOLEAN, title \in BOOLEAN, venue \in BOOLEAN, url \in BOOLEAN}

CommentRecords ==
    {NoStructured} \cup
    {Structured(TRUE, items, es, c, ev, n) :
        items \in {"missing", "list"},
        es \in SeqsUpTo(CommentEntries, MaxEntries),
        c \in {"missing", "null", "dict"},
        ev \in {"missing", "sources", "no_sources"},
        n \in {"missing", "list", "str"}}

\* a record is written in one way only
IsRecord(st) ==
    /\ st.items # "list" => st.entries = <<>>
    /\ st.context # "dict" => (st.evidence = "missing" /\ st.notes = "missing")

AnArticle == [checked |-> FALSE, line_index |-> 1, details |-> <<>>]

ArticleResults ==
    {[ResearchResult(0, AnArticle, st) EXCEPT !.zotero = z, !.zotero_error = err] :
        st \in {r \in CommentRecords : IsRecord(r)},
        z \in {None, Some(ZoteroSyncResult("existing_key", TRUE)),
               Some(ZoteroSyncResult("created_key", FALSE))},
        err \in {None, Some("credentials missing")}}

TopicResults ==
    {[TopicResearchResult(0, [AnArticle EXCEPT !.details = d], st) EXCEPT
            !.zotero = z, !.zotero_errors = errs] :
        st \in {r \in CommentRecords : IsRecord(r)},
        d \in {<<>>, <<"detail">>},
        z \in {<<>>, <<ZoteroSyncResult("existing_key", TRUE)>>,
               <<ZoteroSyncResult("created_key", FALSE)>>},
        errs \in {<<>>, <<"credentials missing">>}}

NoComment == [raised |-> "none", text |-> <<>>]

CommentInit ==
    /\ NoRun
    /\ call \in
        {[fn |-> "none", of |-> "articles", results |-> rs, out |-> NoComment] :
            rs \in {<<>>} \cup {<<r>> : r \in ArticleResults}}
        \cup
        {[fn |-> "none", of |-> "topics", results |-> rs, out |-> NoComment] :
            rs \in {<<>>} \cup {<<r>> : r \in TopicResults}}

\* format_comment reads result.structured.get without looking at its type
FormatComment ==
    /\ call.fn = "none"
    /\ call.of = "articles"
    /\ call' = [call EXCEPT
            !.fn = "format_comment",
            !.out = IF \E k \in 1..Len(call.results) : ~call.results[k].structured.isdict
                    THEN [raised |-> "AttributeError", text |-> <<>>]
                    ELSE [raised |-> "none", text |-> format_comment(call.results)]]
    /\ UNCHANGED run

FormatTopicsComment ==
    /\ call.fn = "none"
    /\ call.of = "topics"
    /\ call' = [call EXCEPT
            !.fn = "format_topics_comment",
            !.out = [raised |-> "none", text |-> format_topics_comment(call.results)]]
    /\ UNCHANGED run

CommentNext ==
    \/ FormatComment
    \/ FormatTopicsComment

CommentSpec == CommentInit /\ [][CommentNext]_vars

\* the comment has the line, or one of the lines
Has(line) == \E k \in 1..Len(call.out.text) : call.out.text[k] = line

HasAny(lines) == \E k \in 1..Len(call.out.text) : call.out.text[k] \in lines

\* the entries of a record that are objects
DictEntries(st) ==
    IF st.isdict /\ st.items = "list"
    THEN {st.entries[k] : k \in {j \in 1..Len(st.entries) : st.entries[j].isdict}}
    ELSE {}

\* the first entry of a record, when it is an object
TopEntry(st) ==
    IF st.isdict /\ st.items = "list" /\ st.entries # <<>> /\ st.entries[1].isdict
    THEN {st.entries[1]} ELSE {}

HasEvidenceSources(st) == st.isdict /\ st.context = "dict" /\ st.evidence = "sources"

HasNotes(st) == st.isdict /\ st.context = "dict" /\ st.notes \in {"list", "str"}

TitleLines ==
    {"    n. title - venue (link)", "    n. title - venue", "    n. title (link)", "    n. title"}

VenueLines ==
    {"    n. title - venue (link)", "    n. title - venue",
     "    n. Untitled - venue (link)", "    n. Untitled - venue"}

LinkLines ==
    {"    n. title - venue (link)", "    n. title (link)",
     "    n. Untitled - venue (link)", "    n. Untitled (link)"}

ZoteroLinkLines ==
    {"  - Zotero: [Existing Zotero item](select_uri)", "  - Zotero: [Added to Zotero](select_uri)",
     "    * Existing: select_uri", "    * Added: select_uri"}

\* format_comment returned, and its comment quotes the title, the venue, the
\* link, the evidence sources and the Zotero deep link of the result exactly
\* when the result has them
ArticleCommentListsWhatIsPresent ==
    /\ call.out.raised = "none"
    /\ \A k \in 1..Len(call.results) :
        LET r == call.results[k]
            top == TopEntry(r.structured)
        IN /\ Has("  - Title: title") <=> \E t \in top : t.title
           /\ Has("  - Venue: pub") <=> \E t \in top : t.venue
           /\ HasAny({"  - Link: url", "  - Link: doi"}) <=> \E t \in top : t.url \/ t.doi
           /\ Has("  - Evidence sources: sources") <=> HasEvidenceSources(r.structured)
           /\ HasAny(ZoteroLinkLines) <=> r.zotero # None

\* the same for format_topics_comment, but for the evidence sources
TopicCommentListsWhatIsPresent ==
    /\ call.out.raised = "none"
    /\ \A k \in 1..Len(call.results) :
        LET r == call.results[k]
            es == DictEntries(r.structured)
        IN /\ HasAny(TitleLines) <=> \E t \in es : t.title
           /\ HasAny(VenueLines) <=> \E t \in es : t.venue
           /\ HasAny(LinkLines) <=> \E t \in es : t.url \/ t.doi
           /\ HasAny(ZoteroLinkLines) <=> r.zotero # <<>>

RecordsAreObjects == \A k \in 1..Len(call.results) : call.results[k].structured.isdict

\* C19 as stated: neither function raises on a record that lacks optional
\* fields, and the comment of either lists title, venue, link, evidence
\* sources and Zotero deep link exactly when they are present.
C19_BothListEveryPresentField ==
    /\ (call.fn = "format_comment" /\ RecordsAreObjects)
        => ArticleCommentListsWhatIsPresent
    /\ call.fn = "format_topics_comment"
        => /\ TopicCommentListsWhatIsPresent
           /\ \A k \in 1..Len(call.results) :
                HasAny({"  - Evidence sources: sources"})
                    <=> HasEvidenceSources(call.results[k].structured)

\* C19 as amended: neither function raises on a record that lacks optional
\* fields; format_comment lists title, venue, link, evidence sources and
\* Zotero deep link exactly when they are present; format_topics_comment
\* lists title, venue, link and Zotero deep links exactly when they are
\* present, the notes of the context when it has notes, and never the
\* evidence sources.
C19_EachListsWhatItQuotes ==
    /\ (call.fn = "format_comment" /\ RecordsAreObjects)
        => ArticleCommentListsWhatIsPresent
    /\ call.fn = "format_topics_comment"
        => /\ TopicCommentListsWhatIsPresent
           /\ ~Has("  - Evidence sources: sources")
           /\ \A k \in 1..Len(call.results) :
                Has("  - Notes:") <=> HasNotes(call.results[k].structured)

\* C19 witness: format_topics_comment was given a record whose only entry has
\* neither title nor venue nor link, whose context has evidence but no notes,
\* and that was not synced: the comment is the heading, the topic and one
\* untitled reference.
C19_BareTopicRecord ==
    /\ call.fn = "format_topics_comment"
    /\ call.results # <<>>
    /\ HasEvidenceSources(call.results[1].structured)
    /\ ~HasNotes(call.results[1].structured)
    /\ call.out.text = <<"### Topic Research Results", "- **topic**:",
                         "  - References:", "    n. Untitled">>

\* the heading that governs line k: the last heading above it
SectionOf(lines, k) ==
    LET above == {j \in 1..(k - 1) : IsHeading(lines[j])} IN
    IF above = {} THEN "none"
    ELSE lines[CHOOSE j \in above : \A i \in above : i <= j]

\* the 0-based indices of the checklist lines of the sections opened by `sec`
SectionItemLines(lines, sec) ==
    {k - 1 : k \in {j \in 1..Len(lines) : IsItemLine(lines[j]) /\ SectionOf(lines, j) = sec}}

\* `items` are exactly the checklist lines of the sections of `sec`, in line
\* order, each with the state of its box
Scoped(items, lines, sec) ==
    /\ Range(LineIndices(items)) = SectionItemLines(lines, sec)
    /\ \A p \in 1..Len(items), q \in 1..Len(items) :
        p < q => items[p].line_index < items[q].line_index
    /\ \A p \in 1..Len(items) :
        items[p].checked = (lines[items[p].line_index + 1] = "done")

\* C20: parse_issue_articles returns, in line order, exactly the checklist
\* lines between an "articles to find" heading and the next ## heading, and
\* parse_issue_topics the same for "topics to review"; any other ## heading
\* ends the section, no line is returned by both, and a text without such a
\* section or without checklist lines in it yields the empty list.
C20_SectionScoping ==
    /\ call.fn = "parse_issue_articles" => Scoped(call.out, call.body.lines, "h_articles")
    /\ call.fn = "parse_issue_topics" => Scoped(call.out, call.body.lines, "h_topics")
    /\ call.fn \in {"parse_issue_articles", "parse_issue_topics"} =>
        Range(LineIndices(parse_issue_articles(call.body)))
            \cap Range(LineIndices(parse_issue_topics(call.body))) = {}

\* C20 witness: parse_issue_articles was given checklist lines above the
\* first heading, in the articles section and under another heading, and
\* returned the one of the articles section only.
C20_OnlyTheSectionParsed ==
    /\ call.fn = "parse_issue_articles"
    /\ call.body.lines \in {<<"open", "h_articles", "done", "h_other">>,
                           <<"h_articles", "done", "h_other", "open">>}
    /\ Len(call.out) = 1
    /\ call.out[1].checked

(***************************************************************************)
(* The items the parsers build.  The label of a checklist line is the       *)
(* sequence of its parts: words, and status tags in either letter case; in  *)
(* a text every checklist line carries the label drawn with the text.       *)
(***************************************************************************)
\* most parts of a label
MaxParts == 2

LabelParts == {"word", "(known)", "(Unknown)"}

Labels == SeqsUpTo(LabelParts, MaxParts) \ {<<>>}

\* STATUS_PATTERN matches the part
IsStatusTag(part) == part \in {"(known)", "(Unknown)"}

\* status_match.group(1).lower()
TagStatus(part) == IF part = "(known)" THEN "known" ELSE "unknown"

\* a parser that never reads the tag
StatusNeverRead(label) == "unknown"

RECURSIVE StatusOf(_)
\* STATUS_PATTERN.search(remainder): the first tag of the label, wherever it
\* stands, or "unknown"
StatusOf(label) ==
    IF label = <<>> THEN "unknown"
    ELSE IF IsStatusTag(Head(label)) THEN TagStatus(Head(label))
    ELSE StatusOf(Tail(label))

RECURSIVE NameOf(_)
\* STATUS_PATTERN.sub("", remainder): the label without any of its tags
NameOf(label) ==
    IF label = <<>> THEN <<>>
    ELSE IF IsStatusTag(Head(label)) THEN NameOf(Tail(label))
    ELSE <<Head(label)>> \o NameOf(Tail(label))

IssueArticle(label, item) ==
    [name |-> NameOf(label), status |-> StatusOf(label), details |-> item.details,
     checked |-> item.checked, line_index |-> item.line_index]

IssueTopic(label, item) ==
    [topic |-> label, details |-> item.details,
     checked |-> item.checked, line_index |-> item.line_index]

ItemInit ==
    /\ NoRun
    /\ call \in {[fn |-> "none", body |-> t, label |-> l, out |-> <<>>] :
                    t \in Texts, l \in Labels}

ParseLabelledArticles ==
    /\ call.fn = "none"
    /\ LET items == parse_issue_articles(call.body) IN
       call' = [call EXCEPT
                    !.fn = "parse_issue_articles",
                    !.out = [k \in 1..Len(items) |-> IssueArticle(call.label, items[k])]]
    /\ UNCHANGED run

ParseLabelledTopics ==
    /\ call.fn = "none"
    /\ LET items == parse_issue_topics(call.body) IN
       call' = [call EXCEPT
                    !.fn = "parse_issue_topics",
                    !.out = [k \in 1..Len(items) |-> IssueTopic(call.label, items[k])]]
    /\ UNCHANGED run

ItemNext ==
    \/ ParseLabelledArticles
    \/ ParseLabelledTopics

ItemSpec == ItemInit /\ [][ItemNext]_vars

\* the label is written as the issue format has it: at most one tag, at the end
LabelInFormat(label) ==
    \A k \in 1..(Len(label) - 1) : ~IsStatusTag(label[k])

\* the line (1-based) that ends the details of the item of line k: the next
\* checklist line or heading, or the end of the text
DetailsEnd(lines, k) ==
    LET stops == {j \in (k + 1)..Len(lines) : IsItemLine(lines[j]) \/ IsHeading(lines[j])} IN
    IF stops = {} THEN Len(lines) + 1
    ELSE CHOOSE j \in stops : \A i \in stops : j <= i

\* the bullet lines that follow the item of line k
FollowingBullets(lines, k) ==
    {j \in (k + 1)..(DetailsEnd(lines, k) - 1) : lines[j] = "detail"}

\* every checklist line of the section has one item, with the state of its
\* box, its line and the bullets that follow it
ItemsAsWritten(items, lines, sec) ==
    /\ Len(items) = Cardinality(SectionItemLines(lines, sec))
    /\ \A li \in SectionItemLines(lines, sec) :
        Cardinality({p \in 1..Len(items) : items[p].line_index = li}) = 1
    /\ \A p \in 1..Len(items) :
        LET k == items[p].line_index + 1 IN
        /\ k \in 1..Len(lines)
        /\ items[p].checked = (lines[k] = "done")
        /\ items[p].details =
            [d \in 1..Cardinality(FollowingBullets(lines, k)) |-> "detail"]

QueryFailed(st, z) ==
    LET entry == st.entries[1] IN
    \/ entry.doi /\ z.by_doi = "raise"
    \/ /\ entry.title /\ z.by_title = "raise"
       /\ ~(entry.doi /\ z.by_doi \in {"hit", "hit_nokey"})

\* the call ended in a sync error right after the store call named
FailedAt(step) ==
    /\ call.out.kind = "sync_error"
    /\ call.out.calls # <<>>
    /\ call.out.calls[Len(call.out.calls)] = step

\* C22: a failure at any sub-step of a sync call (credentials, template,
\* duplicate query by DOI or title, create call, empty create response,
\* existing item without a key) ends the call in one sync error, and no
\* later sub-step runs after the one that failed.
C22_EverySubStepFailureSurfaces ==
    (Synced /\ RecordWellFormed(call.structured)) =>
        LET z == call.zotero IN
        /\ ~z.creds => call.out.kind = "sync_error" /\ call.out.calls = <<>>
        /\ (z.creds /\ z.template = "raise") =>
                FailedAt("zotero_template") /\ Len(call.out.calls) = 1
        /\ (StoreReachable(z) /\ QueryFailed(call.structured, z)) =>
                FailedAt("zotero_query") /\ CreateCalls = {}
        /\ CreateCalls # {} =>
                (z.create \in {"raise", "empty"} => FailedAt("zotero_create"))

\* the duplicate query by DOI raised and the item was created all the same
C22_CreatedAfterFailedQuery ==
    /\ Synced /\ RecordWellFormed(call.structured) /\ StoreReachable(call.zotero)
    /\ call.structured.entries[1].doi /\ call.zotero.by_doi = "raise"
    /\ call.out.kind = "ok" /\ ~call.out.existed
    /\ CreateCalls # {}

\* C23: no selector response, whatever its text (not JSON, or JSON of any
\* top-level type), aborts the run: a selection stage fails only when the
\* call of the LLM itself fails, and otherwise hands a list of indices to
\* the next stage.
C23_SelectorResponseNeverAborts ==
    error.at \in {"select_articles", "select_topics"} => error.kind = "LLMError"

\* the run failed in the selection of the articles on a response it read
C23_AbortedOnResponse ==
    /\ pc = "failed"
    /\ error = [at |-> "select_articles", kind |-> "AttributeError"]
    /\ Calls("llm_articles") # {}
    /\ tracker.comments = <<>> /\ tracker.body = tracker.body0

\* the item indices of the dispatches of one kind, in the order of the log
Dispatched(op) ==
    LET events == FilterSeq(log, Calls(op)) IN
    [d \in 1..Len(events) |-> events[d].idx]

\* the entries of the first n of a selected list that name one of `count` items
InRangeUpTo(selected, n, count) ==
    FilterSeq(SubSeq(selected, 1, n),
              {k \in 1..n : selected[k] >= 0 /\ selected[k] < count})

NoIndexTwice(s) == \A i, j \in 1..Len(s) : i # j => s[i] # s[j]

\* C24: within a run no item is handed to the research agent more than once
\* (no retry, no second dispatch of the same index), and the items are
\* dispatched one at a time in the order of the selected list, the sync calls
\* of an item standing in the log before the dispatch of the next one.
C24_AtMostOneDispatchPerItem ==
    /\ NoIndexTwice(Dispatched("agent_article"))
    /\ NoIndexTwice(Dispatched("agent_topic"))
    /\ pc = "research_articles" =>
          Dispatched("agent_article") =
              InRangeUpTo(state.selected_indices, loop.i - 1, Len(state.articles))
    /\ pc = "research_topics" =>
          Dispatched("agent_topic") =
              InRangeUpTo(state.selected_topic_indices, loop.i - 1, Len(state.topics))

\* the first article was selected twice and researched twice
C24_ResearchedTwice ==
    /\ pc = "research_articles"
    /\ state.selected_indices = <<0, 0>>
    /\ Dispatched("agent_article") = <<0, 0>>

\* the results whose sync ended in a sync error
SyncFailed(results) == {k \in 1..Len(results) : results[k].zotero_error # None}

\* the "sync failed" lines of a comment
SyncFailedLines(text) ==
    {k \in 1..Len(text) : text[k] = "  - Zotero sync failed: error"}

\* C25: once the article stage is over, the results are those of the
\* in-range selected articles in order, whether their sync succeeded or
\* ended in a sync error; every result with a sync error has its "sync
\* failed" line in the article comment; and the candidate body has checked
\* exactly the articles that were checked before or have a result.
C25_SyncErrorStillRecorded ==
    state.article_comment # None =>
        LET res == state.results
            sel == state.selected_indices
        IN /\ ArticleIndices(res) = InRangeUpTo(sel, Len(sel), Len(state.articles))
           /\ Cardinality(SyncFailedLines(state.article_comment[1]))
                = Cardinality(SyncFailed(res))
           /\ state.updated_issue_body # None
           /\ \A p \in 1..Len(state.articles) :
                CheckedAt(state.articles[p].line_index)
                    <=> (state.articles[p].checked \/ (p - 1) \in Range(ArticleIndices(res)))

\* C25 witness: a completed run whose only result is an unchecked article
\* with a sync error: the comment on the tracker says so and the body on the
\* tracker has the article checked, the other article left open.
C25_FailedSyncReportedAndChecked ==
    /\ pc = "done"
    /\ Len(state.articles) = 2
    /\ ~state.articles[1].checked /\ ~state.articles[2].checked
    /\ Len(state.results) = 1
    /\ state.results[1].article_index = 0
    /\ state.results[1].zotero_error # None /\ state.results[1].zotero = None
    /\ Len(tracker.comments) = 1
    /\ SyncFailedLines(tracker.comments[1]) # {}
    /\ tracker.body.lines[state.articles[1].line_index + 1] = "done"
    /\ tracker.body.lines[state.articles[2].line_index + 1] = "open"

\* the step is update_issue_node running, to its end or to an exception
UpdateIssueStep == pc = "update_issue" /\ pc' \in {"done", "failed"}

\* the calls the step adds to the log
CalledInStep(op) == {k \in (Len(log) + 1)..Len(log') : log'[k].op = op}

\* neither kind had an item selected
NothingSelected == state.selected_indices = <<>> /\ state.selected_topic_indices = <<>>

UpdateIssueComments ==
    UpdateIssueStep =>
        /\ CalledInStep("comment") # {} <=>
                (TruthyComment(state.article_comment) \/ TruthyComment(state.topic_comment))
        /\ Cardinality(CalledInStep("comment")) <= 1
        /\ NothingSelected =>
                /\ pc' = "done"
                /\ log' = log
                /\ tracker' = tracker

\* C26: update_issue_node posts a comment exactly when the article comment
\* and the topic comment joined are not empty; when neither kind had an item
\* selected it ends the run without a call that changes the tracker.
C26_CommentIffText == [][UpdateIssueComments]_vars

\* C26 witness: a completed run over an issue with an unchecked article of
\* which the selector selected none: no comment, no patch.
C26_NothingSelectedNothingPosted ==
    /\ pc = "done"
    /\ UncheckedSet(state.articles) # {}
    /\ Calls("llm_articles") # {}
    /\ NothingSelected
    /\ Calls("comment") = {} /\ Calls("patch") = {}
    /\ TrackerUntouched

\* the 1-based lines of the items that have a result
ResultLines ==
    {state.results[k].article.line_index + 1 : k \in 1..Len(state.results)} \cup
    {state.topic_results[k].topic.line_index + 1 : k \in 1..Len(state.topic_results)}

\* text b is text a but for the boxes of `at` that went from open to checked
OnlyBoxesChanged(a, b, at) ==
    /\ Len(b.lines) = Len(a.lines)
    /\ b.nl = a.nl
    /\ \A k \in 1..Len(a.lines) :
        \/ b.lines[k] = a.lines[k]
        \/ k \in at /\ a.lines[k] = "open" /\ b.lines[k] = "done"

PatchOnlyForNewlyChecked ==
    (UpdateIssueStep /\ CalledInStep("patch") # {}) =>
        LET fetched == OrEmpty(state.issue_body)
            sent == state.updated_issue_body[1]
        IN /\ \E k \in 1..Len(fetched.lines) :
                /\ k \in 1..Len(sent.lines)
                /\ fetched.lines[k] = "open" /\ sent.lines[k] = "done"
           /\ OnlyBoxesChanged(fetched, sent, ResultLines)

\* C27: the body is patched only if an item went from unchecked to checked
\* in the run, and the body sent differs from the body fetched only in the
\* boxes of the items that have a result.
C27_PatchOnlyBoxes == [][PatchOnlyForNewlyChecked]_vars

\* a completed run whose only result is an article that was checked already
\* and that patched the body all the same
C27_PatchedWithoutNewlyChecked ==
    /\ pc = "done"
    /\ Len(state.results) = 1 /\ state.results[1].article.checked
    /\ state.topic_results = <<>>
    /\ Calls("patch") # {}
    /\ tracker.body # tracker.body0
    /\ tracker.body.lines = tracker.body0.lines

CommentBeforePatch ==
    UpdateIssueStep =>
        \* the comment call stands before the patch call
        /\ \A c \in CalledInStep("comment"), p \in CalledInStep("patch") : c < p
        \* the comment call failed: no patch call, the body is as it was
        /\ (pc' = "failed" /\ error'.kind = "HTTPError:comment") =>
                /\ CalledInStep("patch") = {}
                /\ tracker' = tracker
        \* the patch call failed: the body is as it was, and the comment of
        \* the step, if it had one, is on the tracker
        /\ (pc' = "failed" /\ error'.kind = "HTTPError:patch") =>
                /\ tracker'.body = tracker.body
                /\ Len(tracker'.comments) = Len(tracker.comments)
                                                + Cardinality(CalledInStep("comment"))

\* C28: in update_issue_node the comment is posted before the body is
\* patched: when the comment call fails the body is not patched, and when
\* the patch call fails the comment is already on the tracker and the
\* checklist is as it was.
C28_CommentThenPatch == [][CommentBeforePatch]_vars

\* C28 witness: the run failed in the patch call: the comment is on the
\* tracker and the body there is the one fetched.
C28_CommentPostedPatchFailed ==
    /\ pc = "failed"
    /\ error = [at |-> "update_issue", kind |-> "HTTPError:patch"]
    /\ Len(tracker.comments) = 1
    /\ tracker.body = tracker.body0
    /\ Calls("comment") # {} /\ Calls("patch") # {}

\* the results of the article stage: those of the loop while it runs, those
\* of the state afterwards
ArticleResultsSoFar == IF pc = "research_articles" THEN loop.results ELSE state.results

TopicResultsSoFar == IF pc = "research_topics" THEN loop.results ELSE state.topic_results

\* the entries of a record that are objects, counted
ObjectEntries(st) ==
    IF st.isdict /\ st.items = "list"
    THEN Cardinality({k \in 1..Len(st.entries) : st.entries[k].isdict})
    ELSE 0

NoBody == tracker.body0.null \/ tracker.body0 = EmptyText

\* C30: an issue fetched without body (null or absent) is read as the empty
\* text: fetch_issue_node fails only when the tracker call does, the summary
\* and both item lists are empty, neither selector nor research agent is
\* called, and the run ends without a call that changes the tracker.
C30_NoBodyIsEmptyText ==
    NoBody =>
        /\ error.at = "fetch_issue" => error.kind \in {"HTTPError", "ConnectionError"}
        /\ error.at \in {"none", "fetch_issue"}
        /\ state.summary_text = <<>> /\ state.articles = <<>> /\ state.topics = <<>>
        /\ pc \notin {"research_articles", "research_topics"}
        /\ Calls("llm_articles") = {} /\ Calls("llm_topics") = {}
        /\ Calls("comment") = {} /\ Calls("patch") = {}
        /\ TrackerUntouched

\* the run failed in fetch_issue_node on the null body the tracker returned
C30_NullBodyAborts ==
    /\ tracker.body0.null
    /\ pc = "failed"
    /\ error = [at |-> "fetch_issue", kind |-> "TypeError"]

\* a run over an issue whose body member is absent ended without a call
C30_AbsentBodyEndsQuietly ==
    /\ tracker.body0 = EmptyText
    /\ pc = "done"
    /\ log = <<Ev("get_issue")>>

====
